---- MODULE Spec2Model ----
(***************************************************************************)
(* where2meet: the event lifecycle (WAITING -> READY -> VOTING ->          *)
(* FINALIZED), participant admission, the recommendation generation        *)
(* trigger, voting and finalization, as implemented by the route handlers  *)
(* under src/src/app/api/events and src/unnamed.                           *)
(*                                                                         *)
(* One event is modelled (events never share rows).  Every handler is a    *)
(* sequence of awaited store calls; each awaited call is one atomic step   *)
(* and other requests may run between two steps of the same handler.  A    *)
(* prisma.$transaction block is one atomic step.  The call to the          *)
(* generator has no effect on the store, so its return is folded into the  *)
(* step that follows it.                                                   *)
(*                                                                         *)
(* Spec runs every operation one request at a time while time passes;      *)
(* SpecLifecycle runs joins, a retry and finalizes concurrently;           *)
(* SpecVoting runs votes, unvotes and finalizes concurrently.  In all of   *)
(* them the generation tasks started by joins run in the background.       *)
(* SpecGeneration adds the fairness of the background task: once scheduled *)
(* it runs.                                                                *)
(***************************************************************************)
EXTENDS Integers, Sequences, FiniteSets, TLC

\* ---- bounds ------------------------------------------------------------
MaxVotes == 2
MaxExpected == 3
SuffixCount == 2
TTL == 1
IdCount == 2

\* ---- program constants -------------------------------------------------
MinExpected == 2
SuffixLo == 10
RecsPerBatch == 3

\* Two requests can be in flight at the same time.
Slots == {1, 2}
Suffixes == SuffixLo..(SuffixLo + SuffixCount - 1)
\* const maxAttempts = 90: as many attempts as there are suffixes (10-99).
maxAttempts == SuffixCount
\* Date.now().toString().slice(-2): any two digits; one value outside the
\* random range and every value inside it are kept.
TimestampSuffixes == (SuffixLo - 1)..(SuffixLo + SuffixCount - 1)

\* A nickname is the requested text followed by the suffixes appended to it:
\* <<"a">> is "a", <<"a", 10>> is "a_10".
NoNick == << >>
CreatorNickname == <<"a">>
Nicks == {<<"a">>, <<"b">>}
Ranks == 1..RecsPerBatch
\* Recommendation ids a caller may name: two of the first batch.
RecInputs == {1, 2}

VARIABLES now, expiresAt, expectedParticipants, status, finalLocationId,
          votingStartedAt, votingEndedAt, updatedAt,
          participants, recs, nextRecId, votes, nextVoteId,
          req, last, autoPending, readyWrites, loop, gen,
          create, uncaught, hungTasks

event == <<expiresAt, expectedParticipants, status, finalLocationId,
           votingStartedAt, votingEndedAt, updatedAt>>
store == <<event, participants, recs, nextRecId, votes, nextVoteId>>
vars == <<now, store, req, last, autoPending, readyWrites, loop, gen,
          create, uncaught, hungTasks>>

Nil == 0
Never == -1

\* ---- pure helpers ------------------------------------------------------
StatusRank(s) ==
  CASE s = "WAITING" -> 0
    [] s = "READY" -> 1
    [] s = "VOTING" -> 2
    [] s = "FINALIZED" -> 3
    [] OTHER -> 4

\* where: { expiresAt: { gt: new Date() } }
isLive == expiresAt > now

nicknames == {participants[i].nickname : i \in 1..Len(participants)}

creatorNicknames ==
  {participants[i].nickname : i \in {j \in 1..Len(participants) : participants[j].isCreator}}

recIds == {r.id : r \in recs}

\* The do/while loop of generateUniqueNickname: the set of names it can
\* return after `attempts` draws have collided.
RECURSIVE NicknameLoop(_, _, _)
NicknameLoop(baseNickname, existingNicknames, attempts) ==
  IF attempts + 1 > maxAttempts
    THEN {Append(baseNickname, t) : t \in TimestampSuffixes}
    ELSE LET unique == {Append(baseNickname, s) : s \in
                          {x \in Suffixes : Append(baseNickname, x) \notin existingNicknames}}
             collides == \E s \in Suffixes : Append(baseNickname, s) \in existingNicknames
         IN unique \cup (IF collides
                           THEN NicknameLoop(baseNickname, existingNicknames, attempts + 1)
                           ELSE {})

generateUniqueNickname(baseNickname, existingNicknames) ==
  IF baseNickname \notin existingNicknames
    THEN {baseNickname}
    ELSE NicknameLoop(baseNickname, existingNicknames, 0)

\* ---- generateRecommendations -------------------------------------------
\* An error message or an error_code is a list of words; String.includes on
\* a word is membership in the list.  The empty list is the empty string.
includes(message, word) == \E i \in 1..Len(message) : message[i] = word

\* What generateObject gives back: it throws (a transport or schema error), or
\* it resolves to an object of llmResponseSchema, whose fields are all
\* optional: the error flag, the error_code, the list of recommendations
\* (here the list of their ranks).
ErrorCodes == {<< >>, <<"INVALID_ADDRESSES">>, <<"INVALID_ADDRESSES", "PARTIAL">>,
               <<"RATE_LIMITED">>}
TransportMessages == {<<"fetch", "failed">>}
RecommendationLists == {<< >>, <<1>>, <<1, 2, 3>>}

GenerateObjectResults ==
  {[throws |-> TRUE, message |-> m, error |-> FALSE, error_code |-> << >>,
    hasRecommendations |-> FALSE, recommendations |-> << >>] :
      m \in TransportMessages}
  \cup
  {o \in [throws : {FALSE}, message : {<< >>}, error : BOOLEAN,
          error_code : ErrorCodes, hasRecommendations : BOOLEAN,
          recommendations : RecommendationLists] :
      ~o.hasRecommendations => o.recommendations = << >>}

\* The fallback response: three recommendations, ranks 1, 2, 3.
getFallbackRecommendations == <<1, 2, 3>>

\* The try block: the message of the error it throws, or the empty message when
\* it reaches the return.
tryBlock(object) ==
  IF object.throws THEN object.message
  ELSE IF object.error
    THEN IF object.error_code # << >> THEN object.error_code ELSE <<"LLM_ERROR">>
  ELSE IF ~object.hasRecommendations \/ Len(object.recommendations) = 0
    THEN <<"NO_RESULTS">>
  ELSE << >>

\* The catch block with every error thrown again (the commented-out
\* throw new Error('LLM_ERROR') in place of the fallback).
rethrowsEveryError(message) == Len(message) >= 0

\* The catch block: the errors it throws again; every other one becomes the
\* fallback response.
rethrows(message) ==
  \/ message = <<"NO_API_KEY">>
  \/ includes(message, "INVALID_ADDRESSES")
  \/ message = <<"NO_RESULTS">>

\* The whole call: what the caller gets.
generateRecommendationsOf(apiKey, object) ==
  IF ~apiKey THEN [result |-> "THROW", recommendations |-> << >>]
  ELSE IF tryBlock(object) = << >>
    THEN [result |-> "RECS", recommendations |-> object.recommendations]
  ELSE IF rethrows(tryBlock(object))
    THEN [result |-> "THROW", recommendations |-> << >>]
  ELSE [result |-> "FALLBACK", recommendations |-> getFallbackRecommendations]

\* The outcomes of the model call that the handlers tell apart, each with an
\* API key setting and a generateObject result that produces it.
ModelOutcomes == {"NO_API_KEY", "OK", "INVALID_ADDRESSES", "OTHER_ERROR_CODE",
                  "EMPTY", "TRANSPORT_ERROR"}

ObjectOf(outcome) ==
  LET object(e, c, r) ==
        [throws |-> FALSE, message |-> << >>, error |-> e, error_code |-> c,
         hasRecommendations |-> TRUE, recommendations |-> r]
  IN CASE outcome = "INVALID_ADDRESSES" -> object(TRUE, <<"INVALID_ADDRESSES">>, << >>)
       [] outcome = "OTHER_ERROR_CODE" -> object(TRUE, <<"RATE_LIMITED">>, << >>)
       [] outcome = "EMPTY" -> object(FALSE, << >>, << >>)
       [] outcome = "TRANSPORT_ERROR" ->
            [throws |-> TRUE, message |-> <<"fetch", "failed">>, error |-> FALSE,
             error_code |-> << >>, hasRecommendations |-> FALSE,
             recommendations |-> << >>]
       [] OTHER -> object(FALSE, << >>, <<1, 2, 3>>)

\* What the caller gets for each of these outcomes.
GeneratorResults ==
  [o \in ModelOutcomes |->
     generateRecommendationsOf(o # "NO_API_KEY", ObjectOf(o)).result]

generateRecommendations(outcome) == GeneratorResults[outcome]

\* recommendations.recommendations.map(...) followed by tx.recommendation.create
\* for each: three rows with ranks 1, 2, 3 and fresh ids.
NewRecs(firstId) == {[id |-> firstId + k - 1, rank |-> k] : k \in Ranks}

\* ---- requests ----------------------------------------------------------
\* `before` keeps, for a vote that was written, the Vote rows its transaction
\* found.
Idle == [op |-> "none", pc |-> "idle", nick |-> NoNick, assigned |-> NoNick,
         rec |-> Nil, cnt |-> 0, resp |-> "none", before |-> {}]

Free(s) == req[s].pc = "idle"

\* Slots are interchangeable: a new request takes the lowest free one.
Begin(s) == Free(s) /\ \A t \in 1..(s - 1) : ~Free(t)

Started(op, nick, rec) ==
  [op |-> op, pc |-> "idle", nick |-> nick, assigned |-> NoNick, rec |-> rec,
   cnt |-> 0, resp |-> "none", before |-> {}]

\* A finished request keeps its operation and its response.
Done(r, resp) == [Idle EXCEPT !.op = r.op, !.pc = "done", !.resp = resp]

\* A success response that carries a count.
DoneWith(r, n) == [Done(r, "OK") EXCEPT !.cnt = n]

\* The answer to a request: its operation, its response and the count it
\* carries; for a vote that was written also who voted for what, and the Vote
\* rows there were before.
Answer(r) ==
  [op |-> r.op, resp |-> r.resp, cnt |-> r.cnt, nick |-> r.nick, rec |-> r.rec,
   before |-> r.before]

\* The slot's request moves on to r; a finished request frees the slot and
\* leaves its response in `last`.
Step(s, r) ==
  IF r.pc = "done"
    THEN /\ req' = [req EXCEPT ![s] = Idle]
         /\ last' = Answer(r)
    ELSE /\ req' = [req EXCEPT ![s] = r]
         /\ UNCHANGED last

\* No call of generateRecommendations is being followed.
NoCall == [pc |-> "idle", apiKey |-> TRUE,
           object |-> [throws |-> FALSE, message |-> << >>, error |-> FALSE,
                       error_code |-> << >>, hasRecommendations |-> FALSE,
                       recommendations |-> << >>],
           message |-> << >>, result |-> "NONE", recommendations |-> << >>]

\* No call of createEvent is being followed.
NoCreate == [pc |-> "idle", bodyUsed |-> FALSE, events |-> {}, eventId |-> Nil,
             shortCode |-> Nil, message |-> << >>, resp |-> "none"]

\* No call of generateUniqueNickname is being followed.
NoLoop == [pc |-> "idle", baseNickname |-> NoNick, existingNicknames |-> {},
           attempts |-> 0, uniqueName |-> NoNick]

TypeOK ==
  /\ now \in 0..TTL
  /\ status \in {"WAITING", "READY", "VOTING", "FINALIZED"}
  /\ expectedParticipants \in MinExpected..MaxExpected
  /\ autoPending \in 0..Cardinality(Slots)
  /\ nextVoteId \in 1..(MaxVotes + 1)

Init ==
  /\ now = 0
  /\ expiresAt = TTL
  /\ expectedParticipants \in MinExpected..MaxExpected
  /\ status = "WAITING"
  /\ finalLocationId = Nil
  /\ votingStartedAt = Never
  /\ votingEndedAt = Never
  /\ updatedAt = Never
  /\ participants = <<[nickname |-> CreatorNickname, isCreator |-> TRUE]>>
  /\ recs = {}
  /\ nextRecId = 1
  /\ votes = {}
  /\ nextVoteId = 1
  /\ req = [s \in Slots |-> Idle]
  /\ last = Answer(Idle)
  /\ autoPending = 0
  /\ readyWrites = 0
  /\ loop = NoLoop
  /\ gen = NoCall
  /\ create = NoCreate
  /\ uncaught = 0
  /\ hungTasks = 0

\* The event expects the minimum number of participants.
InitMinimum == Init /\ expectedParticipants = MinExpected

\* ---- time --------------------------------------------------------------
Tick ==
  /\ now < expiresAt
  /\ now' = now + 1
  /\ UNCHANGED <<store, req, last, autoPending, readyWrites, loop, gen,
               create, uncaught, hungTasks>>

\* ---- join: POST /api/events/[id]/participants --------------------------
\* ---- generateUniqueNickname, one draw at a time -------------------------
\* The nicknames a caller can pass as existing ones.
NicknameInputs ==
  Nicks \cup {Append(n, x) : n \in Nicks, x \in Suffixes}

\* The call: the early return when baseNickname is unused, the loop otherwise.
NickCall(baseNickname, existingNicknames) ==
  /\ loop.pc = "idle"
  /\ loop' = IF baseNickname \notin existingNicknames
               THEN [NoLoop EXCEPT !.pc = "returned",
                                   !.baseNickname = baseNickname,
                                   !.existingNicknames = existingNicknames,
                                   !.uniqueName = baseNickname]
               ELSE [NoLoop EXCEPT !.pc = "loop",
                                   !.baseNickname = baseNickname,
                                   !.existingNicknames = existingNicknames]
  /\ UNCHANGED <<now, store, req, last, autoPending, readyWrites, gen,
               create, uncaught, hungTasks>>

\* The loop body with the attempts++ left out.
NickDrawNoIncrement(suffix, timestamp) ==
  /\ loop.pc = "loop"
  /\ LET attempts == loop.attempts
         uniqueName == Append(loop.baseNickname, suffix)
     IN loop' =
          IF attempts > maxAttempts
            THEN [loop EXCEPT !.attempts = attempts, !.pc = "returned",
                              !.uniqueName = Append(loop.baseNickname, timestamp)]
            ELSE [loop EXCEPT !.attempts = attempts, !.uniqueName = uniqueName,
                              !.pc = IF uniqueName \in loop.existingNicknames
                                       THEN "loop" ELSE "returned"]
  /\ UNCHANGED <<now, store, req, last, autoPending, readyWrites, gen,
               create, uncaught, hungTasks>>

\* One pass of the do/while body: the draw, attempts++, the fallback once
\* attempts exceeds maxAttempts, and the loop condition.
NickDraw(suffix, timestamp) ==
  /\ loop.pc = "loop"
  /\ LET attempts == loop.attempts + 1
         uniqueName == Append(loop.baseNickname, suffix)
     IN loop' =
          IF attempts > maxAttempts
            THEN [loop EXCEPT !.attempts = attempts, !.pc = "returned",
                              !.uniqueName = Append(loop.baseNickname, timestamp)]
            ELSE [loop EXCEPT !.attempts = attempts, !.uniqueName = uniqueName,
                              !.pc = IF uniqueName \in loop.existingNicknames
                                       THEN "loop" ELSE "returned"]
  /\ UNCHANGED <<now, store, req, last, autoPending, readyWrites, gen,
               create, uncaught, hungTasks>>

\* The caller has the result; another call can follow.
NickReturn ==
  /\ loop.pc = "returned"
  /\ loop' = NoLoop
  /\ UNCHANGED <<now, store, req, last, autoPending, readyWrites, gen,
               create, uncaught, hungTasks>>

\* ---- canTransitionTo (validations.ts) -----------------------------------
\* The strings canTransitionTo is applied to: the five statuses, a string that
\* names no status, and a string that names a property every JavaScript object
\* inherits.
StatusStrings ==
  {"WAITING", "READY", "VOTING", "FINALIZED", "EXPIRED", "CANCELLED", "constructor"}

Returns(value) == [kind |-> "return", value |-> value]

Throws == [kind |-> "throw", value |-> FALSE]

\* validTransitions[current]: the array of the key, or what the object literal
\* inherits under that name (a function, not an array), or undefined.
validTransitions(current) ==
  CASE current = "WAITING"     -> [kind |-> "array", items |-> {"READY", "EXPIRED"}]
    [] current = "READY"       -> [kind |-> "array", items |-> {"VOTING", "EXPIRED"}]
    [] current = "VOTING"      -> [kind |-> "array", items |-> {"FINALIZED", "EXPIRED"}]
    [] current = "FINALIZED"   -> [kind |-> "array", items |-> {"EXPIRED"}]
    [] current = "EXPIRED"     -> [kind |-> "array", items |-> {}]
    [] current = "constructor" -> [kind |-> "function", items |-> {}]
    [] OTHER                   -> [kind |-> "undefined", items |-> {}]

\* validTransitions[current]?.includes(next) ?? false: the optional chain stops
\* at undefined only; calling includes on a value that has none throws.
canTransitionTo(current, next) ==
  LET entry == validTransitions(current)
  IN  CASE entry.kind = "undefined" -> Returns(FALSE)
        [] entry.kind = "array"     -> Returns(next \in entry.items)
        [] OTHER                    -> Throws

\* ---- createEvent: POST /api/events, one step at a time ------------------
\* The values generateUniqueIds can draw for an event id and for a short code,
\* and the Event rows a store can hold: ids and short codes are unique.
Ids == 1..IdCount

EventRows == [id : Ids, shortCode : Ids]

EventStores ==
  {es \in SUBSET EventRows :
     \A x, y \in es : (x.id = y.id \/ x.shortCode = y.shortCode) => x = y}

\* The insert violates a unique constraint of the Event table.
UniqueViolation(events, eventId, shortCode) ==
  \E e \in events : e.id = eventId \/ e.shortCode = shortCode

\* The call: request.json() consumes the body; a body that is not JSON throws,
\* one that fails createEventSchema is answered VALIDATION_ERROR.
CreateCall(events, body) ==
  /\ create.pc = "idle"
  /\ create' =
       CASE body = "malformed" ->
              [NoCreate EXCEPT !.pc = "catch", !.bodyUsed = TRUE, !.events = events,
                               !.message = <<"Unexpected token">>]
         [] body = "invalid" ->
              [NoCreate EXCEPT !.pc = "returned", !.bodyUsed = TRUE,
                               !.events = events, !.resp = "VALIDATION_ERROR"]
         [] OTHER ->
              [NoCreate EXCEPT !.pc = "create", !.bodyUsed = TRUE, !.events = events]
  /\ UNCHANGED <<now, store, req, last, autoPending, readyWrites, loop, gen,
                 uncaught, hungTasks>>

\* generateUniqueIds() and prisma.event.create: the store throws for a reason
\* of its own, or because the id or the short code is taken, or inserts.
CreateInsert(eventId, shortCode, storeFails) ==
  /\ create.pc = "create"
  /\ create' =
       IF storeFails
         THEN [create EXCEPT !.pc = "catch", !.eventId = eventId,
                             !.shortCode = shortCode,
                             !.message = <<"Can't reach database server">>]
       ELSE IF UniqueViolation(create.events, eventId, shortCode)
         THEN [create EXCEPT !.pc = "catch", !.eventId = eventId,
                             !.shortCode = shortCode,
                             !.message = <<"Unique constraint", "failed on the fields">>]
       ELSE [create EXCEPT !.pc = "returned", !.eventId = eventId,
                           !.shortCode = shortCode, !.resp = "OK",
                           !.events = create.events
                                        \cup {[id |-> eventId, shortCode |-> shortCode]}]
  /\ UNCHANGED <<now, store, req, last, autoPending, readyWrites, loop, gen,
                 uncaught, hungTasks>>

\* The catch block.  For a unique-constraint error it draws new ids and reads
\* the body again with request.json(); a body that was read already cannot be
\* read again, the call throws, the inner catch logs it and the handler falls
\* through to NETWORK_ERROR, as it does for every other error.
CreateCatch(eventId, shortCode) ==
  /\ create.pc = "catch"
  /\ create' =
       IF ~includes(create.message, "Unique constraint")
         THEN [create EXCEPT !.pc = "returned", !.resp = "NETWORK_ERROR"]
       ELSE IF create.bodyUsed
         THEN [create EXCEPT !.pc = "returned", !.eventId = eventId,
                             !.shortCode = shortCode, !.resp = "NETWORK_ERROR"]
       ELSE IF UniqueViolation(create.events, eventId, shortCode)
         THEN [create EXCEPT !.pc = "returned", !.eventId = eventId,
                             !.shortCode = shortCode, !.resp = "NETWORK_ERROR"]
       ELSE [create EXCEPT !.pc = "returned", !.eventId = eventId,
                           !.shortCode = shortCode, !.resp = "OK",
                           !.events = create.events
                                        \cup {[id |-> eventId, shortCode |-> shortCode]}]
  /\ UNCHANGED <<now, store, req, last, autoPending, readyWrites, loop, gen,
                 uncaught, hungTasks>>

\* The caller has the response; another call can follow.
CreateDone ==
  /\ create.pc = "returned"
  /\ create' = NoCreate
  /\ UNCHANGED <<now, store, req, last, autoPending, readyWrites, loop, gen,
                 uncaught, hungTasks>>

\* ---- generateRecommendations, one step at a time ------------------------
\* The call, with or without an API key in the environment, and what
\* generateObject is going to give back.
GenCall(apiKey, object) ==
  /\ gen.pc = "idle"
  /\ gen' = [NoCall EXCEPT !.pc = "called", !.apiKey = apiKey, !.object = object]
  /\ UNCHANGED <<now, store, req, last, autoPending, readyWrites, loop,
               create, uncaught, hungTasks>>

\* if (!this.apiKey) throw new Error('NO_API_KEY'), outside the try block.
GenCheckKey ==
  /\ gen.pc = "called"
  /\ gen' = IF ~gen.apiKey
              THEN [gen EXCEPT !.pc = "thrown", !.message = <<"NO_API_KEY">>]
              ELSE [gen EXCEPT !.pc = "try"]
  /\ UNCHANGED <<now, store, req, last, autoPending, readyWrites, loop,
               create, uncaught, hungTasks>>

\* The try block: await generateObject, the error flag, the empty list, the
\* return.
GenTry ==
  /\ gen.pc = "try"
  /\ gen' = IF tryBlock(gen.object) # << >>
              THEN [gen EXCEPT !.pc = "catch", !.message = tryBlock(gen.object)]
              ELSE [gen EXCEPT !.pc = "returned", !.result = "RECS",
                               !.recommendations = gen.object.recommendations]
  /\ UNCHANGED <<now, store, req, last, autoPending, readyWrites, loop,
               create, uncaught, hungTasks>>

\* The catch block: the known errors are thrown again, the others replaced by
\* the fallback response.
GenCatch ==
  /\ gen.pc = "catch"
  /\ gen' = IF rethrows(gen.message)
              THEN [gen EXCEPT !.pc = "thrown"]
              ELSE [gen EXCEPT !.pc = "returned", !.result = "FALLBACK",
                               !.recommendations = getFallbackRecommendations]
  /\ UNCHANGED <<now, store, req, last, autoPending, readyWrites, loop,
               create, uncaught, hungTasks>>

\* The caller has the result or the error; another call can follow.
GenDone ==
  /\ gen.pc \in {"returned", "thrown"}
  /\ gen' = NoCall
  /\ UNCHANGED <<now, store, req, last, autoPending, readyWrites, loop,
               create, uncaught, hungTasks>>

\* The join with a capacity check that lets a full event through (> for >=).
JoinStartAdmitsWhenFull(s, nickname) ==
  /\ Begin(s)
  /\ LET r == Started("join", nickname, Nil)
     IN IF ~isLive
          THEN Step(s, Done(r, "EVENT_NOT_FOUND"))
          ELSE IF status # "WAITING"
            THEN Step(s, Done(r, "EVENT_FULL"))
            ELSE IF Len(participants) > expectedParticipants
              THEN Step(s, Done(r, "EVENT_FULL"))
              ELSE \E assignedNickname \in generateUniqueNickname(nickname, nicknames) :
                     Step(s,
                               [r EXCEPT !.pc = "create",
                                         !.assigned = assignedNickname,
                                         !.cnt = Len(participants)])
  /\ UNCHANGED <<now, loop, gen, create, uncaught, hungTasks,
                 store, autoPending, readyWrites>>

JoinStart(s, nickname) ==
  /\ Begin(s)
  /\ LET r == Started("join", nickname, Nil)
     IN IF ~isLive
          THEN Step(s, Done(r, "EVENT_NOT_FOUND"))
          ELSE IF status # "WAITING"
            THEN Step(s, Done(r, "EVENT_FULL"))
            ELSE IF Len(participants) >= expectedParticipants
              THEN Step(s, Done(r, "EVENT_FULL"))
              ELSE \E assignedNickname \in generateUniqueNickname(nickname, nicknames) :
                     Step(s,
                               [r EXCEPT !.pc = "create",
                                         !.assigned = assignedNickname,
                                         !.cnt = Len(participants)])
  /\ UNCHANGED <<now, loop, gen, create, uncaught, hungTasks,
                 store, autoPending, readyWrites>>

\* The join that inserts its participant as a creator.
JoinCreateAsCreator(s) ==
  /\ req[s].op = "join" /\ req[s].pc = "create"
  /\ participants' = Append(participants,
                            [nickname |-> req[s].assigned, isCreator |-> TRUE])
  /\ LET newParticipantCount == req[s].cnt + 1
     IN Step(s,
                  IF newParticipantCount = expectedParticipants
                    THEN [req[s] EXCEPT !.pc = "ready", !.cnt = newParticipantCount]
                    ELSE DoneWith(req[s], newParticipantCount))
  /\ UNCHANGED <<now, loop, gen, create, uncaught, hungTasks,
                 event, recs, nextRecId, votes, nextVoteId, autoPending,
                 readyWrites>>

\* The join that compares the count it read, not the new count, with
\* expectedParticipants.
JoinCreateComparesOldCount(s) ==
  /\ req[s].op = "join" /\ req[s].pc = "create"
  /\ participants' = Append(participants,
                            [nickname |-> req[s].assigned, isCreator |-> FALSE])
  /\ LET newParticipantCount == req[s].cnt + 1
     IN Step(s,
                  IF req[s].cnt = expectedParticipants
                    THEN [req[s] EXCEPT !.pc = "ready", !.cnt = newParticipantCount]
                    ELSE DoneWith(req[s], newParticipantCount))
  /\ UNCHANGED <<now, loop, gen, create, uncaught, hungTasks,
                 event, recs, nextRecId, votes, nextVoteId, autoPending,
                 readyWrites>>

JoinCreate(s) ==
  /\ req[s].op = "join" /\ req[s].pc = "create"
  /\ participants' = Append(participants,
                            [nickname |-> req[s].assigned, isCreator |-> FALSE])
  /\ LET newParticipantCount == req[s].cnt + 1
     IN Step(s,
                  IF newParticipantCount = expectedParticipants
                    THEN [req[s] EXCEPT !.pc = "ready", !.cnt = newParticipantCount]
                    ELSE DoneWith(req[s], newParticipantCount))
  /\ UNCHANGED <<now, loop, gen, create, uncaught, hungTasks,
                 event, recs, nextRecId, votes, nextVoteId, autoPending,
                 readyWrites>>

JoinReady(s) ==
  /\ req[s].op = "join" /\ req[s].pc = "ready"
  /\ status' = "READY"
  /\ readyWrites' = readyWrites + 1
  /\ Step(s, [req[s] EXCEPT !.pc = "spawn"])
  /\ UNCHANGED <<now, loop, gen, create, uncaught, hungTasks,
                 expiresAt, expectedParticipants, finalLocationId,
                 votingStartedAt, votingEndedAt, updatedAt, participants, recs,
                 nextRecId, votes, nextVoteId, autoPending>>

\* The join that awaits the generation before it answers: a throw of the
\* generator reaches the handler's catch, a result is committed first.
JoinSpawnAwaitsGeneration(s) ==
  /\ req[s].op = "join" /\ req[s].pc = "spawn"
  /\ \E outcome \in ModelOutcomes :
       IF generateRecommendations(outcome) = "THROW"
         THEN /\ Step(s, Done(req[s], "NETWORK_ERROR"))
              /\ UNCHANGED store
         ELSE /\ recs' = recs \cup NewRecs(nextRecId)
              /\ nextRecId' = nextRecId + RecsPerBatch
              /\ status' = "VOTING"
              /\ votingStartedAt' = now
              /\ Step(s, DoneWith(req[s], req[s].cnt))
              /\ UNCHANGED <<expiresAt, expectedParticipants, finalLocationId,
                             votingEndedAt, updatedAt, participants, votes,
                             nextVoteId>>
  /\ UNCHANGED <<now, loop, gen, create, uncaught, hungTasks,
                 autoPending, readyWrites>>

JoinSpawn(s) ==
  /\ req[s].op = "join" /\ req[s].pc = "spawn"
  /\ autoPending' = IF Len(participants) >= 2 THEN autoPending + 1 ELSE autoPending
  /\ Step(s, DoneWith(req[s], req[s].cnt))
  /\ UNCHANGED <<now, loop, gen, create, uncaught, hungTasks,
                 store, readyWrites>>

\* The task with its catch block replaced by the commit of the success path.
AutoGenerateCommitsOnThrow(outcome) ==
  /\ autoPending > 0
  /\ autoPending' = autoPending - 1
  /\ recs' = recs \cup NewRecs(nextRecId)
  /\ nextRecId' = nextRecId + RecsPerBatch
  /\ status' = "VOTING"
  /\ votingStartedAt' = now
  /\ UNCHANGED <<now, loop, gen, create, uncaught, hungTasks,
                 expiresAt, expectedParticipants, finalLocationId, votingEndedAt,
                 updatedAt, participants, votes, nextVoteId, req, last, readyWrites>>

\* The task that drops what the generator returned: it writes the error
\* marker whatever the outcome.
AutoGenerateDropsResult(outcome) ==
  /\ autoPending > 0
  /\ autoPending' = autoPending - 1
  /\ updatedAt' = now
  /\ UNCHANGED <<now, loop, gen, create, uncaught, hungTasks,
                 expiresAt, expectedParticipants, status, finalLocationId,
                 votingStartedAt, votingEndedAt, participants, recs, nextRecId,
                 votes, nextVoteId, req, last, readyWrites>>

\* The task with a failure handler that also pushes expiresAt back.
AutoGenerateExtendsExpiry(outcome) ==
  /\ autoPending > 0
  /\ autoPending' = autoPending - 1
  /\ IF generateRecommendations(outcome) \in {"RECS", "FALLBACK"}
       THEN /\ recs' = recs \cup NewRecs(nextRecId)
            /\ nextRecId' = nextRecId + RecsPerBatch
            /\ status' = "VOTING"
            /\ votingStartedAt' = now
            /\ UNCHANGED <<updatedAt, expiresAt>>
       ELSE /\ updatedAt' = now
            /\ expiresAt' = now + TTL
            /\ UNCHANGED <<recs, nextRecId, status, votingStartedAt>>
  /\ UNCHANGED <<now, loop, gen, create, uncaught, hungTasks,
                 expectedParticipants, finalLocationId, votingEndedAt,
                 participants, votes, nextVoteId, req, last, readyWrites>>

\* The task started by Promise.resolve().then(...) in the join handler.
AutoGenerate(outcome) ==
  /\ autoPending > 0
  /\ autoPending' = autoPending - 1
  /\ IF generateRecommendations(outcome) \in {"RECS", "FALLBACK"}
       THEN /\ recs' = recs \cup NewRecs(nextRecId)
            /\ nextRecId' = nextRecId + RecsPerBatch
            /\ status' = "VOTING"
            /\ votingStartedAt' = now
            /\ UNCHANGED updatedAt
       ELSE /\ updatedAt' = now
            /\ UNCHANGED <<recs, nextRecId, status, votingStartedAt>>
  /\ UNCHANGED <<now, loop, gen, create, uncaught, hungTasks,
                 expiresAt, expectedParticipants, finalLocationId, votingEndedAt,
                 participants, votes, nextVoteId, req, last, readyWrites>>

\* The task when the store fails.  A transaction that throws is caught like
\* a throw of the generator; the catch block awaits event.update, and when
\* that call throws too nothing catches it: the promise made by
\* Promise.resolve().then(...) is rejected and has no handler.
AutoGenerateStoreFails(outcome, updateFails) ==
  /\ autoPending > 0
  /\ autoPending' = autoPending - 1
  /\ generateRecommendations(outcome) = "THROW" => updateFails
  /\ IF updateFails
       THEN /\ uncaught' = uncaught + 1
            /\ UNCHANGED updatedAt
       ELSE /\ updatedAt' = now
            /\ UNCHANGED uncaught
  /\ UNCHANGED <<now, loop, gen, create, hungTasks, expiresAt, expectedParticipants,
                 status, finalLocationId, votingStartedAt, votingEndedAt,
                 participants, recs, nextRecId, votes, nextVoteId, req, last,
                 readyWrites>>

\* A store call of a join or of a retry throws: the handler's catch block
\* answers NETWORK_ERROR (join) or LLM_ERROR (retry) and nothing is written.
HandlerStoreFails(s) ==
  /\ req[s].op \in {"join", "retry"} /\ ~Free(s)
  /\ Step(s, Done(req[s], IF req[s].op = "retry" THEN "LLM_ERROR"
                          ELSE "NETWORK_ERROR"))
  /\ UNCHANGED <<now, loop, gen, create, uncaught, hungTasks, store, autoPending,
                 readyWrites>>

\* The model call of a generation task never settles: await generateObject
\* is given no timeout and no abort signal, so the task stays where it is.
AutoHangs ==
  /\ autoPending > hungTasks
  /\ hungTasks' = hungTasks + 1
  /\ UNCHANGED <<now, loop, gen, create, uncaught, store, req, last, autoPending,
                 readyWrites>>

\* A generation task whose model call settles.
AutoResponds(outcome) == autoPending > hungTasks /\ AutoGenerate(outcome)

\* ---- store rules that live in the schema -------------------------------
\* Votes referencing a deleted Recommendation are deleted with it.
CascadeVotes(vs, deletedRecIds) == {v \in vs : v.rec \notin deletedRecIds}

\* What the store does with Event.finalLocationId when the Recommendation it
\* references is deleted: clear the reference, or refuse the delete.
ReferentialActions == {"SetNull", "Restrict"}

\* A row that references a Recommendation can only be written while that
\* Recommendation exists.
RecExists(recId) == recId \in recIds

\* ---- manual retry: POST /api/events/[id]/retry -------------------------
\* The retry with the creator check moved in front of the status check.
RetryStartChecksCreatorFirst(s, creatorNickname) ==
  /\ Begin(s)
  /\ LET r == Started("retry", creatorNickname, Nil)
     IN Step(s,
          IF ~isLive THEN Done(r, "EVENT_NOT_FOUND")
          ELSE IF creatorNicknames = {} \/ creatorNickname \notin creatorNicknames
            THEN Done(r, "NOT_AUTHORIZED")
          ELSE IF status # "READY" THEN Done(r, "EVENT_NOT_READY")
          ELSE IF Len(participants) # expectedParticipants
            THEN Done(r, "PARTICIPANTS_NOT_COMPLETE")
          ELSE [r EXCEPT !.pc = "llm"])
  /\ UNCHANGED <<now, loop, gen, create, uncaught, hungTasks,
                 store, autoPending, readyWrites>>

RetryStart(s, creatorNickname) ==
  /\ Begin(s)
  /\ LET r == Started("retry", creatorNickname, Nil)
     IN Step(s,
          IF ~isLive THEN Done(r, "EVENT_NOT_FOUND")
          ELSE IF status # "READY" THEN Done(r, "EVENT_NOT_READY")
          ELSE IF Len(participants) # expectedParticipants
            THEN Done(r, "PARTICIPANTS_NOT_COMPLETE")
          ELSE IF creatorNicknames = {} \/ creatorNickname \notin creatorNicknames
            THEN Done(r, "NOT_AUTHORIZED")
          ELSE [r EXCEPT !.pc = "llm"])
  /\ UNCHANGED <<now, loop, gen, create, uncaught, hungTasks,
                 store, autoPending, readyWrites>>

\* The retry with a generator that answers every failure with the fallback
\* recommendations instead of throwing.
RetryCommitIgnoresThrow(s, outcome, onDelete) ==
  /\ req[s].op = "retry" /\ req[s].pc = "llm"
  /\ recs' = NewRecs(nextRecId)
  /\ nextRecId' = nextRecId + RecsPerBatch
  /\ votes' = CascadeVotes(votes, recIds)
  /\ finalLocationId' = IF finalLocationId \in recIds THEN Nil ELSE finalLocationId
  /\ status' = "VOTING"
  /\ votingStartedAt' = now
  /\ Step(s, Done(req[s], "OK"))
  /\ UNCHANGED <<now, loop, gen, create, uncaught, hungTasks,
                 expiresAt, expectedParticipants, votingEndedAt, updatedAt,
                 participants, nextVoteId, autoPending, readyWrites>>

RetryCommit(s, outcome, onDelete) ==
  /\ req[s].op = "retry" /\ req[s].pc = "llm"
  /\ IF generateRecommendations(outcome) = "THROW"
       THEN /\ Step(s, Done(req[s], "LLM_ERROR"))
            /\ UNCHANGED store
       ELSE IF finalLocationId \in recIds /\ onDelete = "Restrict"
         THEN /\ Step(s, Done(req[s], "LLM_ERROR"))
              /\ UNCHANGED store
         ELSE /\ recs' = NewRecs(nextRecId)
              /\ nextRecId' = nextRecId + RecsPerBatch
              /\ votes' = CascadeVotes(votes, recIds)
              /\ finalLocationId' = IF finalLocationId \in recIds THEN Nil
                                    ELSE finalLocationId
              /\ status' = "VOTING"
              /\ votingStartedAt' = now
              /\ Step(s, Done(req[s], "OK"))
              /\ UNCHANGED <<expiresAt, expectedParticipants, votingEndedAt, updatedAt,
                             participants, nextVoteId>>
  /\ UNCHANGED <<now, loop, gen, create, uncaught, hungTasks,
                 autoPending, readyWrites>>

\* The model call of a retry never settles: the handler stays at its await
\* and the request is never answered.
RetryHangs(s) ==
  /\ req[s].op = "retry" /\ req[s].pc = "llm"
  /\ Step(s, [req[s] EXCEPT !.pc = "hung"])
  /\ UNCHANGED <<now, loop, gen, create, uncaught, hungTasks, store, autoPending,
                 readyWrites>>

\* ---- finalize: POST /api/events/[id]/finalize --------------------------
\* The finalize without the comparison of the nickname with the creator's.
FinalizeStartAnyCaller(s, creatorNickname, finalLocation) ==
  /\ Begin(s)
  /\ LET r == Started("finalize", creatorNickname, finalLocation)
     IN Step(s,
          IF ~isLive THEN Done(r, "EVENT_NOT_FOUND")
          ELSE IF status # "VOTING" THEN Done(r, "VOTING_ENDED")
          ELSE IF ~RecExists(finalLocation) THEN Done(r, "EVENT_NOT_FOUND")
          ELSE [r EXCEPT !.pc = "update"])
  /\ UNCHANGED <<now, loop, gen, create, uncaught, hungTasks,
                 store, autoPending, readyWrites>>

FinalizeStart(s, creatorNickname, finalLocation) ==
  /\ Begin(s)
  /\ LET r == Started("finalize", creatorNickname, finalLocation)
     IN Step(s,
          IF ~isLive THEN Done(r, "EVENT_NOT_FOUND")
          ELSE IF status # "VOTING" THEN Done(r, "VOTING_ENDED")
          ELSE IF creatorNicknames = {} \/ creatorNickname \notin creatorNicknames
            THEN Done(r, "NOT_PARTICIPANT")
          ELSE IF ~RecExists(finalLocation) THEN Done(r, "EVENT_NOT_FOUND")
          ELSE [r EXCEPT !.pc = "update"])
  /\ UNCHANGED <<now, loop, gen, create, uncaught, hungTasks,
                 store, autoPending, readyWrites>>

FinalizeUpdate(s) ==
  /\ req[s].op = "finalize" /\ req[s].pc = "update"
  /\ IF RecExists(req[s].rec)
       THEN /\ status' = "FINALIZED"
            /\ finalLocationId' = req[s].rec
            /\ votingEndedAt' = now
            /\ Step(s, Done(req[s], "OK"))
       ELSE /\ Step(s, Done(req[s], "NETWORK_ERROR"))
            /\ UNCHANGED <<status, finalLocationId, votingEndedAt>>
  /\ UNCHANGED <<now, loop, gen, create, uncaught, hungTasks,
                 expiresAt, expectedParticipants, votingStartedAt, updatedAt,
                 participants, recs, nextRecId, votes, nextVoteId, autoPending,
                 readyWrites>>

\* ---- vote: POST /api/events/[id]/recommendations/[recId]/vote ----------
VotesOf(vs, nickname) == {v \in vs : v.voter = nickname}

VotesFor(vs, recId) == {v \in vs : v.rec = recId}

\* The vote summary of one recommendation: its vote count and its voters.
VoteSummary(vs, recId) ==
  [voteCount |-> Cardinality(VotesFor(vs, recId)),
   voters |-> {v.voter : v \in VotesFor(vs, recId)}]

\* The vote summaries of the recommendations ids, and the total of their
\* vote counts.
Tally(vs, ids) == [r \in ids |-> VoteSummary(vs, r)]

\* recommendations.reduce((sum, rec) => sum + rec.voteCount, 0)
RECURSIVE reduceVoteCount(_, _)
reduceVoteCount(summaries, ids) ==
  IF ids = {} THEN 0
  ELSE LET r == CHOOSE x \in ids : TRUE
       IN summaries[r].voteCount + reduceVoteCount(summaries, ids \ {r})

\* The total that counts the recommendations that have votes, not the votes.
totalVotesCountsRecommendations(vs, ids) ==
  Cardinality({r \in ids : VotesFor(vs, r) # {}})

totalVotes(vs, ids) == reduceVoteCount(Tally(vs, ids), ids)

\* The vote transaction without its tx.vote.delete of the existing vote.
VoteTxWriteKeepsOld(vs, existingVote, recommendationId, nickname, newId) ==
  vs \cup {[id |-> newId, rec |-> recommendationId, voter |-> nickname]}

\* The vote transaction with a delete that names the recommendation voted for
\* and not the existing vote.
VoteTxWriteDeletesByTarget(vs, existingVote, recommendationId, nickname, newId) ==
  (vs \ VotesFor(VotesOf(vs, nickname), recommendationId))
    \cup {[id |-> newId, rec |-> recommendationId, voter |-> nickname]}

\* The body of the vote transaction once existingVote has been looked up:
\* the Vote rows after it.
VoteTxWrite(vs, existingVote, recommendationId, nickname, newId) ==
  (vs \ existingVote) \cup {[id |-> newId, rec |-> recommendationId, voter |-> nickname]}

\* The vote that takes the nickname for a participant's whenever the event has
\* participants.
VoteStartChecksAnyParticipant(s, nickname, recommendationId) ==
  /\ Begin(s)
  /\ LET r == Started("vote", nickname, recommendationId)
     IN Step(s,
          IF ~isLive THEN Done(r, "EVENT_NOT_FOUND")
          ELSE IF status # "VOTING" THEN Done(r, "VOTING_NOT_STARTED")
          ELSE IF nicknames = {} THEN Done(r, "NOT_PARTICIPANT")
          ELSE [r EXCEPT !.pc = "findRec"])
  /\ UNCHANGED <<now, loop, gen, create, uncaught, hungTasks, store, autoPending,
                 readyWrites>>

\* The vote without the check that the nickname is a participant's.
VoteStartAnyVoter(s, nickname, recommendationId) ==
  /\ Begin(s)
  /\ LET r == Started("vote", nickname, recommendationId)
     IN Step(s,
          IF ~isLive THEN Done(r, "EVENT_NOT_FOUND")
          ELSE IF status # "VOTING" THEN Done(r, "VOTING_NOT_STARTED")
          ELSE [r EXCEPT !.pc = "findRec"])
  /\ UNCHANGED <<now, loop, gen, create, uncaught, hungTasks,
                 store, autoPending, readyWrites>>

VoteStart(s, nickname, recommendationId) ==
  /\ Begin(s)
  /\ LET r == Started("vote", nickname, recommendationId)
     IN Step(s,
          IF ~isLive THEN Done(r, "EVENT_NOT_FOUND")
          ELSE IF status # "VOTING" THEN Done(r, "VOTING_NOT_STARTED")
          ELSE IF nickname \notin nicknames THEN Done(r, "NOT_PARTICIPANT")
          ELSE [r EXCEPT !.pc = "findRec"])
  /\ UNCHANGED <<now, loop, gen, create, uncaught, hungTasks,
                 store, autoPending, readyWrites>>

VoteFindRec(s) ==
  /\ req[s].op = "vote" /\ req[s].pc = "findRec"
  /\ Step(s,
       IF RecExists(req[s].rec) THEN [req[s] EXCEPT !.pc = "tx"]
       ELSE Done(req[s], "EVENT_NOT_FOUND"))
  /\ UNCHANGED <<now, loop, gen, create, uncaught, hungTasks,
                 store, autoPending, readyWrites>>

\* The vote transaction without its early return for a vote on the same
\* recommendation: the existing vote is always replaced.
VoteTxNoSameCheck(s) ==
  /\ req[s].op = "vote" /\ req[s].pc = "tx"
  /\ \E existingVote \in IF VotesOf(votes, req[s].nick) = {} THEN {{}}
                         ELSE {{v} : v \in VotesOf(votes, req[s].nick)} :
       IF ~RecExists(req[s].rec)
         THEN /\ Step(s, Done(req[s], "NETWORK_ERROR"))
              /\ UNCHANGED <<votes, nextVoteId>>
         ELSE /\ nextVoteId <= MaxVotes
              /\ votes' = VoteTxWrite(votes, existingVote, req[s].rec,
                                      req[s].nick, nextVoteId)
              /\ nextVoteId' = nextVoteId + 1
              /\ Step(s, [req[s] EXCEPT !.pc = "tally", !.before = votes])
  /\ UNCHANGED <<now, loop, gen, create, uncaught, hungTasks,
                 event, participants, recs, nextRecId, autoPending,
                 readyWrites>>

VoteTx(s) ==
  /\ req[s].op = "vote" /\ req[s].pc = "tx"
  /\ \E existingVote \in IF VotesOf(votes, req[s].nick) = {} THEN {{}}
                         ELSE {{v} : v \in VotesOf(votes, req[s].nick)} :
       IF \E v \in existingVote : v.rec = req[s].rec
         THEN /\ Step(s, Done(req[s], "ALREADY_VOTED"))
              /\ UNCHANGED <<votes, nextVoteId>>
         ELSE IF ~RecExists(req[s].rec)
           THEN /\ Step(s, Done(req[s], "NETWORK_ERROR"))
                /\ UNCHANGED <<votes, nextVoteId>>
           ELSE /\ nextVoteId <= MaxVotes
                /\ votes' = VoteTxWrite(votes, existingVote, req[s].rec,
                                        req[s].nick, nextVoteId)
                /\ nextVoteId' = nextVoteId + 1
                /\ Step(s, [req[s] EXCEPT !.pc = "tally", !.before = votes])
  /\ UNCHANGED <<now, loop, gen, create, uncaught, hungTasks,
                 event, participants, recs, nextRecId, autoPending,
                 readyWrites>>

VoteTally(s) ==
  /\ req[s].op = "vote" /\ req[s].pc = "tally"
  /\ Step(s,
       [DoneWith(req[s], Cardinality(VotesFor(votes, req[s].rec)))
          EXCEPT !.nick = req[s].nick, !.rec = req[s].rec,
                 !.before = req[s].before])
  /\ UNCHANGED <<now, loop, gen, create, uncaught, hungTasks,
                 store, autoPending, readyWrites>>

\* ---- unvote: DELETE /api/events/[id]/recommendations/[recId]/vote ------
UnvoteStart(s, nickname, recommendationId) ==
  /\ Begin(s)
  /\ LET r == Started("unvote", nickname, recommendationId)
     IN Step(s,
          IF ~isLive THEN Done(r, "EVENT_NOT_FOUND")
          ELSE IF status # "VOTING" THEN Done(r, "VOTING_NOT_STARTED")
          ELSE IF nickname \notin nicknames THEN Done(r, "NOT_PARTICIPANT")
          ELSE [r EXCEPT !.pc = "findVote"])
  /\ UNCHANGED <<now, loop, gen, create, uncaught, hungTasks,
                 store, autoPending, readyWrites>>

\* findFirst keeps the id of the vote it found in `cnt` for the delete.
UnvoteFind(s) ==
  /\ req[s].op = "unvote" /\ req[s].pc = "findVote"
  /\ LET found == VotesFor(VotesOf(votes, req[s].nick), req[s].rec)
     IN IF found = {}
          THEN Step(s, Done(req[s], "EVENT_NOT_FOUND"))
          ELSE \E existingVote \in found :
                 Step(s,
                           [req[s] EXCEPT !.pc = "delete", !.cnt = existingVote.id])
  /\ UNCHANGED <<now, loop, gen, create, uncaught, hungTasks,
                 store, autoPending, readyWrites>>

\* The unvote with a delete that names the recommendation and not the vote:
\* every vote on it goes.
UnvoteDeleteByRecommendation(s) ==
  /\ req[s].op = "unvote" /\ req[s].pc = "delete"
  /\ IF \E v \in votes : v.id = req[s].cnt
       THEN /\ votes' = votes \ VotesFor(votes, req[s].rec)
            /\ Step(s, [req[s] EXCEPT !.pc = "tally"])
       ELSE /\ Step(s, Done(req[s], "NETWORK_ERROR"))
            /\ UNCHANGED votes
  /\ UNCHANGED <<now, loop, gen, create, uncaught, hungTasks,
                 event, participants, recs, nextRecId, nextVoteId, autoPending,
                 readyWrites>>

UnvoteDelete(s) ==
  /\ req[s].op = "unvote" /\ req[s].pc = "delete"
  /\ IF \E v \in votes : v.id = req[s].cnt
       THEN /\ votes' = {v \in votes : v.id # req[s].cnt}
            /\ Step(s, [req[s] EXCEPT !.pc = "tally"])
       ELSE /\ Step(s, Done(req[s], "NETWORK_ERROR"))
            /\ UNCHANGED votes
  /\ UNCHANGED <<now, loop, gen, create, uncaught, hungTasks,
                 event, participants, recs, nextRecId, nextVoteId, autoPending,
                 readyWrites>>

UnvoteTally(s) ==
  /\ req[s].op = "unvote" /\ req[s].pc = "tally"
  /\ Step(s,
       DoneWith(req[s], Cardinality(VotesFor(votes, req[s].rec))))
  /\ UNCHANGED <<now, loop, gen, create, uncaught, hungTasks,
                 store, autoPending, readyWrites>>

\* ---- reads -------------------------------------------------------------
\* GET /api/events/[id], GET /api/events/code/[shortCode], GET .../votes:
\* findUnique filtered on expiresAt, 404 when nothing is found.
ReadEvent(s, op) ==
  /\ Begin(s)
  /\ LET r == Started(op, NoNick, Nil)
     IN Step(s,
          IF ~isLive THEN Done(r, "EVENT_NOT_FOUND")
          ELSE DoneWith(r, IF op = "tally" THEN totalVotes(votes, recIds)
                           ELSE Len(participants)))
  /\ UNCHANGED <<now, loop, gen, create, uncaught, hungTasks,
                 store, autoPending, readyWrites>>

\* GET .../participants and GET .../recommendations: findMany filtered on the
\* event's expiresAt; the rows found, possibly none, are returned as a success.
ListRows(s, op) ==
  /\ Begin(s)
  /\ LET r == Started(op, NoNick, Nil)
         rows == IF op = "listParticipants" THEN Len(participants) ELSE Cardinality(recs)
     IN Step(s,
          DoneWith(r, IF isLive THEN rows ELSE 0))
  /\ UNCHANGED <<now, loop, gen, create, uncaught, hungTasks,
                 store, autoPending, readyWrites>>

JoinNext(S, N) ==
  \/ \E s \in S, n \in N : JoinStart(s, n)
  \/ \E s \in S : JoinCreate(s)
  \/ \E s \in S : JoinReady(s)
  \/ \E s \in S : JoinSpawn(s)

AutoNext == \E o \in ModelOutcomes : AutoGenerate(o)

RetryNext(S) ==
  \/ \E s \in S, n \in Nicks : RetryStart(s, n)
  \/ \E s \in S, o \in ModelOutcomes, a \in ReferentialActions : RetryCommit(s, o, a)

FinalizeNext(S) ==
  \/ \E s \in S, n \in Nicks, r \in RecInputs : FinalizeStart(s, n, r)
  \/ \E s \in S : FinalizeUpdate(s)

VoteNext(S) ==
  \/ \E s \in S, n \in Nicks, r \in RecInputs : VoteStart(s, n, r)
  \/ \E s \in S : VoteFindRec(s)
  \/ \E s \in S : VoteTx(s)
  \/ \E s \in S : VoteTally(s)

UnvoteNext(S) ==
  \/ \E s \in S, n \in Nicks, r \in RecInputs : UnvoteStart(s, n, r)
  \/ \E s \in S : UnvoteFind(s)
  \/ \E s \in S : UnvoteDelete(s)
  \/ \E s \in S : UnvoteTally(s)

ReadNext(S) ==
  \/ \E s \in S, op \in {"getEvent", "findByCode", "tally"} : ReadEvent(s, op)
  \/ \E s \in S, op \in {"listParticipants", "listRecommendations"} : ListRows(s, op)

\* Every operation, one request at a time, on an event expecting the minimum
\* number of participants, while time passes; the generation tasks started
\* by joins run in the background.
Next ==
  \/ Tick
  \/ JoinNext({1}, Nicks)
  \/ AutoNext
  \/ RetryNext({1})
  \/ FinalizeNext({1})
  \/ VoteNext({1})
  \/ UnvoteNext({1})
  \/ ReadNext({1})

Spec == InitMinimum /\ [][Next]_vars

\* Concurrent joins and finalizes, with a retry, on a live event whose
\* joiners all ask for the creator's nickname.
NextLifecycle ==
  \/ JoinNext(Slots, {CreatorNickname})
  \/ AutoNext
  \/ RetryNext({1})
  \/ FinalizeNext(Slots)

SpecLifecycle == Init /\ [][NextLifecycle]_vars

\* Concurrent votes, unvotes and finalizes on a live event that "b" joined and
\* that the automatic generation moved to VOTING.
NextVoting ==
  \/ JoinNext({1}, {<<"b">>})
  \/ AutoNext
  \/ FinalizeNext(Slots)
  \/ VoteNext(Slots)
  \/ UnvoteNext(Slots)

SpecVoting == InitMinimum /\ [][NextVoting]_vars

\* The outcomes of the model call for which generateRecommendations returns
\* recommendations (its own or the fallback ones).
ReturningOutcomes == {o \in ModelOutcomes : generateRecommendations(o) # "THROW"}

AutoReturns == \E o \in ReturningOutcomes : AutoGenerate(o)

\* Concurrent joins and a retry while time passes, with a generator
\* that returns recommendations to every automatic task.  The task started by
\* Promise.resolve().then(...) is a microtask of the event loop: once
\* scheduled it runs, whatever else the server does.
NextGeneration ==
  \/ Tick
  \/ JoinNext(Slots, {CreatorNickname})
  \/ AutoReturns
  \/ RetryNext({1})

SpecGeneration == Init /\ [][NextGeneration]_vars /\ WF_vars(AutoReturns)

NickDraws == \E x \in Suffixes, t \in TimestampSuffixes : NickDraw(x, t)

\* Calls of generateUniqueNickname with every base nickname and every set of
\* existing nicknames; the function is synchronous, so a call that has begun
\* keeps drawing until it returns.
NextNickname ==
  \/ \E n \in Nicks, e \in SUBSET NicknameInputs : NickCall(n, e)
  \/ NickDraws
  \/ NickReturn

SpecNickname == InitMinimum /\ [][NextNickname]_vars /\ WF_vars(NickDraws)

\* Calls of generateRecommendations with and without an API key and with
\* every result of generateObject.
NextLlm ==
  \/ \E k \in BOOLEAN, o \in GenerateObjectResults : GenCall(k, o)
  \/ GenCheckKey
  \/ GenTry
  \/ GenCatch
  \/ GenDone

SpecLlm == InitMinimum /\ [][NextLlm]_vars

\* Calls of createEvent on every store, with every kind of body, every draw
\* of generateUniqueIds and a store that can fail.
NextCreate ==
  \/ \E es \in EventStores, b \in {"valid", "invalid", "malformed"} : CreateCall(es, b)
  \/ \E i \in Ids, c \in Ids, f \in BOOLEAN : CreateInsert(i, c, f)
  \/ \E i \in Ids, c \in Ids : CreateCatch(i, c)
  \/ CreateDone

SpecCreate == InitMinimum /\ [][NextCreate]_vars

\* Joins, generation tasks and retries, one request at a time, with a store
\* whose calls can throw.
NextStoreFailure ==
  \/ JoinNext({1}, Nicks)
  \/ AutoNext
  \/ \E o \in ModelOutcomes, f \in BOOLEAN : AutoGenerateStoreFails(o, f)
  \/ RetryNext({1})
  \/ HandlerStoreFails(1)

SpecStoreFailure == InitMinimum /\ [][NextStoreFailure]_vars

AutoRespondsNext == \E o \in ModelOutcomes : AutoResponds(o)

RetryCommits ==
  \E o \in ModelOutcomes, a \in ReferentialActions : RetryCommit(1, o, a)

\* Joins, generation tasks and retries, one request at a time, with a model
\* call that may never settle.  A call that settles is followed by the rest of
\* its task or handler.
NextTimeout ==
  \/ JoinNext({1}, Nicks)
  \/ AutoRespondsNext
  \/ AutoHangs
  \/ \E n \in Nicks : RetryStart(1, n)
  \/ RetryCommits
  \/ RetryHangs(1)

SpecTimeout ==
  InitMinimum /\ [][NextTimeout]_vars
    /\ WF_vars(AutoRespondsNext) /\ WF_vars(RetryCommits)

\* ---- properties --------------------------------------------------------

\* C1: the status write WAITING -> READY is performed at most once over the
\* event's lifetime, under any interleaving of concurrent joins.
C1_ReadyWrittenAtMostOnce == readyWrites <= 1

\* C2: in every reachable state there is at most one Vote row for each
\* (eventId, voterNickname) pair, also under concurrent votes and unvotes of
\* the same voter.
C2_OneVotePerVoter ==
  \A v \in votes, w \in votes : v.voter = w.voter => v = w

\* C2 witness: a voter's vote has just been switched by one request (the vote
\* created second is the voter's only one) while a second request of the same
\* voter for another recommendation has passed its checks and is about to run
\* its own transaction.
C2_SwitchedUnderConcurrency ==
  \E s \in Slots, t \in Slots :
    /\ req[s].op = "vote" /\ req[s].pc = "tally"
    /\ req[t].op = "vote" /\ req[t].pc = "tx"
    /\ req[t].nick = req[s].nick /\ req[t].rec # req[s].rec
    /\ \E v \in votes : v.voter = req[s].nick /\ v.rec = req[s].rec /\ v.id > 1

\* C3: whenever the status is VOTING or later, the event has exactly 3
\* Recommendation rows and their ranks are exactly {1, 2, 3}.
C3_VotingHasThreeRanked ==
  StatusRank(status) >= StatusRank("VOTING") =>
    /\ Cardinality(recs) = RecsPerBatch
    /\ {r.rank : r \in recs} = Ranks

\* C4: the persisted status never moves backward in the order
\* WAITING < READY < VOTING < FINALIZED.
C4_StatusNeverRegresses ==
  [][StatusRank(status') >= StatusRank(status)]_vars

\* C5: the status write to FINALIZED happens only when the stored status is
\* VOTING, and a finalLocationId that is set references an existing
\* Recommendation of the event.
C5_FinalizeOnlyFromVoting ==
  /\ [](finalLocationId # Nil => finalLocationId \in recIds)
  /\ [][\A s \in Slots :
          (/\ req[s].op = "finalize" /\ req[s].pc = "update"
           /\ req'[s].pc = "idle" /\ last'.resp = "OK")
          => status = "VOTING"]_vars

\* C6: no two Participants of the event share a nickname.
C6_NicknamesUnique == Cardinality(nicknames) = Len(participants)

\* C7: the number of participants never exceeds expectedParticipants (of two
\* concurrent joins at expectedParticipants - 1, one is rejected).
C7_NeverOverFull == Len(participants) <= expectedParticipants

\* C8: for an expired event every operation returns the not-found error and
\* changes no state, and no write is applied to the event after it expired.
C8_ExpiredIsNotFound ==
  [][~isLive =>
       /\ store' = store
       /\ (req' = req /\ last' # last) => last'.resp = "EVENT_NOT_FOUND"]_vars

\* C9: vote and unvote insert or delete a Vote row only while the stored
\* status is VOTING at the moment of the write.
C9_VoteWritesOnlyInVoting ==
  [][\A s \in Slots :
       (req[s].op \in {"vote", "unvote"} /\ req'[s] # req[s] /\ votes' # votes)
       => status = "VOTING"]_vars

\* C10: once the status is FINALIZED with finalLocationId = r, every later
\* state has status FINALIZED and finalLocationId = r.
C10_FinalizeIrreversible ==
  [][(status = "FINALIZED" /\ finalLocationId # Nil)
       => (status' = "FINALIZED" /\ finalLocationId' = finalLocationId)]_vars

\* C11: when the automatic generation fails (the generator throws or returns
\* nothing) the task changes neither the status nor the Recommendation rows,
\* so an event that the join left READY with no recommendations stays so, and
\* the join that started the task reports success.
C11_AutoFailureLeavesReady ==
  [][/\ \A o \in ModelOutcomes :
          (generateRecommendations(o) = "THROW" /\ AutoGenerate(o))
            => /\ status' = status
               /\ recs' = recs
               /\ (status = "READY" /\ recs = {}) => (status' = "READY" /\ recs' = {})
     /\ \A s \in Slots :
          (req[s].op = "join" /\ req[s].pc = "spawn" /\ req'[s] # req[s])
            => (last'.op = "join" /\ last'.resp = "OK")]_vars

\* C11 witness: the join that filled the event reported success, its
\* generation task has failed (the catch block stamped updatedAt) and the
\* event is READY with no recommendations.
C11_FailedAfterSuccessfulJoin ==
  /\ last.op = "join" /\ last.resp = "OK" /\ last.cnt = expectedParticipants
  /\ autoPending = 0 /\ updatedAt # Never
  /\ status = "READY" /\ recs = {}

\* C12: when the generator fails during a manual retry (invalid addresses,
\* empty result, missing credentials) the retry answers with the
\* generation-failed error LLM_ERROR and writes nothing: a READY event stays
\* READY and no Recommendation row is created or deleted.
C12_RetryFailureWritesNothing ==
  [][\A s \in Slots, o \in ModelOutcomes, a \in ReferentialActions :
       (generateRecommendations(o) = "THROW" /\ RetryCommit(s, o, a))
         => /\ store' = store
            /\ last'.op = "retry" /\ last'.resp = "LLM_ERROR"
            /\ status = "READY" => status' = "READY"]_vars

\* C12 witness: a retry has just answered LLM_ERROR on an event that is
\* complete, READY and without recommendations.
C12_RetryFailedOnReady ==
  /\ last.op = "retry" /\ last.resp = "LLM_ERROR"
  /\ status = "READY" /\ recs = {}
  /\ Len(participants) = expectedParticipants

\* A retry request answered resp at once: the generator is not called (the
\* request never waits for it) and nothing is written.
RetryRejected(resp) ==
  /\ req' = req
  /\ last'.op = "retry" /\ last'.resp = resp
  /\ store' = store

\* C13 as stated: on a live event, a retry with a nickname that is not the
\* creator's is answered NOT_AUTHORIZED, and a retry by the creator while the
\* status is not READY is answered EVENT_NOT_READY; neither calls the
\* generator nor changes any state.
C13_RetryRejectsByCaller ==
  [][\A s \in Slots, n \in Nicks :
       (isLive /\ RetryStart(s, n))
         => /\ n \notin creatorNicknames => RetryRejected("NOT_AUTHORIZED")
            /\ (n \in creatorNicknames /\ status # "READY")
                 => RetryRejected("EVENT_NOT_READY")]_vars

\* C13 amended: on a live event, a retry while the status is not READY is
\* answered EVENT_NOT_READY whoever sends it, and a retry with a nickname that
\* is not the creator's on a READY event with all its participants is
\* answered NOT_AUTHORIZED; neither calls the generator nor changes any state.
C13_RetryRejectsStatusFirst ==
  [][\A s \in Slots, n \in Nicks :
       (isLive /\ RetryStart(s, n))
         => /\ status # "READY" => RetryRejected("EVENT_NOT_READY")
            /\ (/\ status = "READY"
                /\ Len(participants) = expectedParticipants
                /\ n \notin creatorNicknames)
                 => RetryRejected("NOT_AUTHORIZED")]_vars

\* C13 witness: a retry has just been answered NOT_AUTHORIZED on a READY
\* event that has all its participants and no recommendations.
C13_NotAuthorizedOnReady ==
  /\ last.op = "retry" /\ last.resp = "NOT_AUTHORIZED"
  /\ status = "READY" /\ recs = {}
  /\ Len(participants) = expectedParticipants
  /\ \A s \in Slots : Free(s)

\* The voter nickname holds a vote on recommendation recId.
HasVoteOn(nickname, recId) == \E v \in votes : v.voter = nickname /\ v.rec = recId

\* C14: on a live VOTING event, a vote for R by a voter whose vote is already
\* on R passes the checks, is answered ALREADY_VOTED, and no step until then
\* changes any recommendation's vote count or voter list.
C14_RepeatVoteIsAlreadyVoted ==
  [][/\ \A s \in Slots, n \in Nicks, r \in RecInputs :
          (isLive /\ status = "VOTING" /\ HasVoteOn(n, r) /\ VoteStart(s, n, r))
            => req'[s].pc = "findRec"
     /\ \A s \in Slots :
          (/\ req[s].op = "vote" /\ req[s].pc \in {"findRec", "tx"}
           /\ HasVoteOn(req[s].nick, req[s].rec))
            => /\ Tally(votes', recIds) = Tally(votes, recIds)
               /\ totalVotes(votes', recIds) = totalVotes(votes, recIds)
               /\ (req[s].pc = "findRec" /\ req'[s] # req[s]) => req'[s].pc = "tx"
               /\ (req[s].pc = "tx" /\ req'[s] # req[s])
                    => /\ req'[s].pc = "idle"
                       /\ last'.op = "vote" /\ last'.resp = "ALREADY_VOTED"]_vars

\* C14 witness: a vote has just been answered ALREADY_VOTED on a VOTING
\* event on which a vote is held.
C14_SecondVoteRefused ==
  /\ last.op = "vote" /\ last.resp = "ALREADY_VOTED"
  /\ status = "VOTING" /\ votes # {}
  /\ \A s \in Slots : Free(s)

\* The delete of an unvote of R by the voter whose vote for R was the last
\* request answered, with success: the unvote follows the vote immediately.
UnvoteRightAfterVote(s) ==
  /\ req[s].op = "unvote" /\ req[s].pc = "delete"
  /\ req'[s].op = "unvote" /\ req'[s].pc = "tally"
  /\ last.op = "vote" /\ last.resp = "OK"
  /\ last.nick = req[s].nick /\ last.rec = req[s].rec

\* C15 as stated: a successful vote for R immediately followed by an unvote
\* of R by the same voter leaves every recommendation's vote count and voters
\* as they were before the vote, whatever vote the voter held beforehand.
C15_VoteUnvoteRestoresTally ==
  [][\A s \in Slots :
       UnvoteRightAfterVote(s)
         => Tally(votes', recIds) = Tally(last.before, recIds)]_vars

\* C15 amended: the same for a voter who held no vote before the vote.
C15_FirstVoteUnvoteRestoresTally ==
  [][\A s \in Slots :
       (UnvoteRightAfterVote(s) /\ VotesOf(last.before, last.nick) = {})
         => /\ Tally(votes', recIds) = Tally(last.before, recIds)
            /\ totalVotes(votes', recIds) = totalVotes(last.before, recIds)]_vars

\* C15 witness: a voter who held no vote voted for R while another voter's
\* vote was on R, and the unvote that followed has deleted the vote.
C15_UnvotedAfterFirstVote ==
  \E s \in Slots :
    /\ req[s].op = "unvote" /\ req[s].pc = "tally"
    /\ last.op = "vote" /\ last.resp = "OK"
    /\ last.nick = req[s].nick /\ last.rec = req[s].rec
    /\ VotesOf(last.before, last.nick) = {}
    /\ VotesFor(last.before, last.rec) # {}
    /\ votes = last.before

\* C16: when a voter whose vote is on recommendation A votes for another
\* recommendation B of the event, the vote transaction leaves the event's
\* total vote count unchanged, takes exactly one vote from A, gives exactly
\* one to B and leaves every other recommendation's count unchanged.
C16_SwitchMovesOneVote ==
  [][\A s \in Slots, A \in recIds :
       (/\ req[s].op = "vote" /\ req[s].pc = "tx" /\ req'[s] # req[s]
        /\ HasVoteOn(req[s].nick, A)
        /\ A # req[s].rec /\ RecExists(req[s].rec))
         => LET B == req[s].rec
                voteCount(vs, r) == VoteSummary(vs, r).voteCount
            IN /\ totalVotes(votes', recIds) = totalVotes(votes, recIds)
               /\ voteCount(votes', A) = voteCount(votes, A) - 1
               /\ voteCount(votes', B) = voteCount(votes, B) + 1
               /\ \A r \in recIds \ {A, B} :
                    voteCount(votes', r) = voteCount(votes, r)
               /\ req'[s].pc = "tally"]_vars

\* C16 witness: a vote transaction has just moved a voter's vote from one
\* recommendation to another.
C16_VoteSwitched ==
  \E s \in Slots :
    /\ req[s].op = "vote" /\ req[s].pc = "tally"
    /\ \E v \in req[s].before : v.voter = req[s].nick /\ v.rec # req[s].rec
    /\ HasVoteOn(req[s].nick, req[s].rec)

\* should_generate_recommendations of a join response that reports count n.
ShouldGenerate(n) == n = expectedParticipants

\* C17: a join that read a WAITING event with expectedParticipants - 1
\* participants and inserted its participant goes on to write READY, to
\* schedule the generation task and to answer success with
\* should_generate_recommendations true; a join whose insert leaves the count
\* below expectedParticipants answers success at once, leaves the status
\* WAITING and schedules nothing.
C17_ThresholdJoinTriggers ==
  [][\A s \in Slots :
       /\ (/\ req[s].op = "join" /\ req[s].pc = "create"
           /\ req[s].cnt = expectedParticipants - 1 /\ req'[s] # req[s])
            => req'[s].pc = "ready"
       /\ (req[s].op = "join" /\ req[s].pc = "ready" /\ req'[s] # req[s])
            => (status' = "READY" /\ req'[s].pc = "spawn")
       /\ (req[s].op = "join" /\ req[s].pc = "spawn" /\ req'[s] # req[s])
            => /\ autoPending' = autoPending + 1
               /\ last'.op = "join" /\ last'.resp = "OK"
               /\ ShouldGenerate(last'.cnt)
       /\ (/\ req[s].op = "join" /\ req[s].pc = "create" /\ req'[s] # req[s]
           /\ Len(participants') < expectedParticipants)
            => /\ req'[s].pc = "idle"
               /\ last'.op = "join" /\ last'.resp = "OK"
               /\ ~ShouldGenerate(last'.cnt)
               /\ status = "WAITING" /\ status' = "WAITING"
               /\ autoPending' = autoPending]_vars

\* C17 witness: on an event expecting three participants the second join
\* left the count below three and the event WAITING, and the third join has
\* written READY, scheduled the generation and answered with
\* should_generate_recommendations true.
C17_ThirdJoinTriggered ==
  /\ expectedParticipants = MinExpected + 1
  /\ Len(participants) = expectedParticipants
  /\ last.op = "join" /\ last.resp = "OK" /\ ShouldGenerate(last.cnt)
  /\ status = "READY" /\ autoPending = 1 /\ readyWrites = 1

\* C18: a join request that finds a live event whose status is not WAITING,
\* or whose participant count is already >= expectedParticipants, is answered
\* EVENT_FULL at once; it inserts no Participant and changes no status.
C18_JoinRejectedWhenClosed ==
  [][\A s \in Slots, n \in Nicks :
       (/\ isLive
        /\ status # "WAITING" \/ Len(participants) >= expectedParticipants
        /\ JoinStart(s, n))
         => /\ req' = req
            /\ last'.op = "join" /\ last'.resp = "EVENT_FULL"
            /\ participants' = participants /\ status' = status
            /\ store' = store]_vars

\* C18 witness: a join has just been answered EVENT_FULL on an event that is
\* still WAITING and already has expectedParticipants participants or more.
C18_FullJoinRefused ==
  /\ last.op = "join" /\ last.resp = "EVENT_FULL"
  /\ status = "WAITING" /\ Len(participants) >= expectedParticipants

\* C19: once a generation (automatic or manual retry) has committed its
\* recommendations and moved the event to VOTING, a later commit of the other
\* one is rejected: no step adds Recommendation rows to the committed set or
\* deletes rows of it.
C19_LaterCommitRejected ==
  [][StatusRank(status) >= StatusRank("VOTING") => recs' = recs]_vars

C21_JoinDoesNotAwaitGeneration ==
  [][/\ \A s \in Slots :
          (req[s].op = "join" /\ req[s].pc = "spawn" /\ req'[s] # req[s])
            => /\ req'[s].pc = "idle"
               /\ last' = Answer(DoneWith(req[s], req[s].cnt))
               /\ autoPending' > 0
               /\ store' = store
     /\ \A o \in ModelOutcomes :
          AutoGenerate(o) => (last' = last /\ req' = req)]_vars

\* C21 witness: the threshold join has answered success while its generation
\* task has not run: the event is READY without recommendations.
C21_AnsweredWhilePending ==
  /\ last.op = "join" /\ last.resp = "OK" /\ ShouldGenerate(last.cnt)
  /\ autoPending = 1 /\ updatedAt = Never
  /\ status = "READY" /\ recs = {}
\* nickname_modified of the join response.
wasModified(originalNickname, assignedNickname) == originalNickname # assignedNickname

\* C22: when the requested nickname is already used in the event the join
\* assigns <requested>_NN with NN in the random suffix range and not already
\* used, and reports nickname_modified; when it is unused the join assigns it
\* unchanged and reports it not modified.
C22_AssignedNicknameIsFreshSuffix ==
  [][\A s \in Slots :
       (Free(s) /\ req'[s].op = "join" /\ req'[s].pc = "create")
         => LET originalNickname == req'[s].nick
                assignedNickname == req'[s].assigned
            IN IF originalNickname \in nicknames
                 THEN /\ \E NN \in Suffixes :
                           assignedNickname = Append(originalNickname, NN)
                      /\ assignedNickname \notin nicknames
                      /\ wasModified(originalNickname, assignedNickname)
                 ELSE /\ assignedNickname = originalNickname
                      /\ ~wasModified(originalNickname, assignedNickname)]_vars
\* C23: generateUniqueNickname terminates for every base nickname and every
\* set of existing nicknames: whatever the draws, also when every candidate
\* collides, the loop has drawn at most maxAttempts + 1 times, the draw after
\* maxAttempts takes the timestamp fallback, and the call returns.
C23_NicknameLoopTerminates ==
  /\ [](loop.attempts <= maxAttempts + 1)
  /\ [](loop.pc = "loop" => loop.attempts <= maxAttempts)
  /\ []((loop.pc = "returned" /\ loop.attempts = maxAttempts + 1)
          => \E t \in TimestampSuffixes :
               loop.uniqueName = Append(loop.baseNickname, t))
  /\ (loop.pc = "loop") ~> (loop.pc = "returned")

\* C23 witness: a call whose every draw collided has returned the timestamp
\* fallback after maxAttempts + 1 draws.
C23_ReturnedFallback ==
  /\ loop.pc = "returned"
  /\ loop.attempts = maxAttempts + 1
  /\ \A x \in Suffixes : Append(loop.baseNickname, x) \in loop.existingNicknames
\* The classes of model result the specification names as real failures.
FlaggedInvalidAddresses(object) ==
  ~object.throws /\ object.error /\ includes(object.error_code, "INVALID_ADDRESSES")

EmptyRecommendationList(object) ==
  /\ ~object.throws /\ ~object.error
  /\ ~object.hasRecommendations \/ Len(object.recommendations) = 0

C25_FlaggedErrorNeverReturns ==
  (gen.pc = "returned") => ~gen.object.error
\* The finalize request in slot s is answered with an error at once and the
\* event's status, final location and end of voting stay as they were.
FinalizeRejected(s) ==
  /\ req'[s] = Idle
  /\ last'.op = "finalize" /\ last'.resp # "OK"
  /\ UNCHANGED <<status, finalLocationId, votingEndedAt>>

\* C26: a finalize request with a nickname that is not the creator's, or with
\* a recommendationId that is not one of the event's recommendations, or that
\* finds a status other than VOTING, is answered with an error and changes
\* neither status nor finalLocationId nor votingEndedAt.
C26_FinalizeRejectionChangesNothing ==
  [][\A s \in Slots :
       (Free(s) /\ (req'[s].op = "finalize" \/ last'.op = "finalize"))
         => \A n \in Nicks, r \in RecInputs :
              (/\ \/ n \notin creatorNicknames
                  \/ ~RecExists(r)
                  \/ status # "VOTING"
               /\ FinalizeStart(s, n, r))
                => FinalizeRejected(s)]_vars

\* C26 witness: on a live VOTING event a finalize has just been refused as
\* NOT_PARTICIPANT (the nickname was not the creator's) and the event is still
\* VOTING with no final location.
C26_NonCreatorFinalizeRefused ==
  /\ last.op = "finalize" /\ last.resp = "NOT_PARTICIPANT"
  /\ isLive /\ status = "VOTING" /\ finalLocationId = Nil /\ votingEndedAt = Never
  /\ \A s \in Slots : Free(s)
\* The vote request in slot s is answered with an error in this step and the
\* Vote rows stay as they were.
VoteRejected(s) ==
  /\ req'[s] = Idle
  /\ last'.op = "vote" /\ last'.resp \notin {"OK", "ALREADY_VOTED"}
  /\ votes' = votes

\* C27: a vote request with a nickname that is not a participant's, or that
\* finds a status other than VOTING, is answered with an error at once; one
\* whose recommendationId is not one of the event's recommendations is answered
\* with an error when it looks the recommendation up; until it is answered a
\* request of either kind creates and deletes no Vote row.
C27_VoteRejectionWritesNothing ==
  [][/\ \A s \in Slots :
          (Free(s) /\ (req'[s].op = "vote" \/ last'.op = "vote"))
            => \A n \in Nicks, r \in RecInputs :
                 /\ ((n \notin nicknames \/ status # "VOTING") /\ VoteStart(s, n, r))
                      => VoteRejected(s)
                 /\ (~RecExists(r) /\ VoteStart(s, n, r))
                      => /\ votes' = votes
                         /\ VoteRejected(s) \/ req'[s].pc = "findRec"
     /\ \A s \in Slots :
          (/\ req[s].op = "vote" /\ req[s].pc = "findRec"
           /\ ~RecExists(req[s].rec))
            => (VoteFindRec(s) => VoteRejected(s)) /\ votes' = votes]_vars

\* C27 witness: on a live VOTING event that holds a vote, a vote has just been
\* refused as NOT_PARTICIPANT and the vote is still there.
C27_NonParticipantVoteRefused ==
  /\ last.op = "vote" /\ last.resp = "NOT_PARTICIPANT"
  /\ isLive /\ status = "VOTING" /\ votes # {}
  /\ \A s \in Slots : Free(s)
\* C28: an unvote for recommendation R by a voter who holds no vote on R when
\* the request looks for it, or when it deletes it (a concurrent request
\* removed it in between), is answered EVENT_NOT_FOUND and deletes no vote; an
\* unvote that deletes removes exactly that voter's vote on R.
C28_UnvoteWithoutVoteIsNotFound ==
  [][\A s \in Slots :
       /\ (/\ req[s].op = "unvote" /\ req[s].pc \in {"findVote", "delete"}
           /\ ~HasVoteOn(req[s].nick, req[s].rec)
           /\ UnvoteFind(s) \/ UnvoteDelete(s))
            => /\ req'[s] = Idle
               /\ last'.op = "unvote" /\ last'.resp = "EVENT_NOT_FOUND"
               /\ votes' = votes
       /\ (req[s].op = "unvote" /\ req[s].pc = "delete" /\ req'[s].pc = "tally")
            => /\ votes' \subseteq votes
               /\ votes \ votes' = VotesFor(VotesOf(votes, req[s].nick), req[s].rec)
               /\ Cardinality(votes \ votes') = 1]_vars
\* C29: a tally request changes nothing in the store, whatever the status; on
\* a live event its totalVotes is the number of Vote rows on the event's
\* recommendations, the sum of the voteCount of each, and each voteCount is the
\* number of Vote rows on that recommendation.
C29_TallyReadsAndSums ==
  [][\A s \in Slots :
       (last'.op = "tally" /\ ReadEvent(s, "tally"))
         => /\ store' = store
            /\ autoPending' = autoPending /\ readyWrites' = readyWrites
            /\ isLive =>
                 /\ last'.resp = "OK"
                 /\ last'.cnt = Cardinality({v \in votes : v.rec \in recIds})
                 /\ \A r \in recIds :
                      Tally(votes, recIds)[r].voteCount
                        = Cardinality({v \in votes : v.rec = r})]_vars

\* C29 witness: a tally has just reported two votes that are on the same
\* recommendation of a VOTING event.
C29_TallyOfTwoVotes ==
  /\ last.op = "tally" /\ last.resp = "OK" /\ last.cnt = 2
  /\ status = "VOTING"
  /\ \E r \in recIds : Cardinality(VotesFor(votes, r)) = 2
  /\ \A s \in Slots : Free(s)
\* C30: no step of any operation (join, the READY write, the generation task
\* and its failure handler, retry, vote, unvote, finalize, the reads) changes
\* expiresAt: it keeps the value given at creation.
C30_ExpiresAtNeverChanges ==
  [][expiresAt' = expiresAt]_vars

\* C30 witness: the failure handler of the generation task has written the
\* event after time passed, and expiresAt is what it was at creation.
C30_FailureHandlerKeptExpiry ==
  /\ status = "READY" /\ recs = {} /\ autoPending = 0
  /\ now > 0 /\ updatedAt = now
  /\ expiresAt = TTL
\* C31: in every state exactly one participant of the event has isCreator
\* true, and it is the one the creation inserted (the first row, with the
\* creator's nickname); joins add only rows with isCreator false.
C31_ExactlyOneCreator ==
  /\ Cardinality({i \in 1..Len(participants) : participants[i].isCreator}) = 1
  /\ participants[1] = [nickname |-> CreatorNickname, isCreator |-> TRUE]
  /\ creatorNicknames = {CreatorNickname}

\* C31 witness: concurrent joins that asked for the creator's nickname have
\* filled the event past its expected size.
C31_JoinedUnderCreatorsName ==
  /\ Len(participants) > expectedParticipants
  /\ \E i \in 2..Len(participants) : participants[i].nickname # CreatorNickname
  /\ \A s \in Slots : Free(s)
\* C32: no failure of the store or of the generator escapes an operation as
\* an exception nobody catches: every handler and the generation task, its
\* error handler included, end with a result.
C32_NoUncaughtException ==
  uncaught = 0
\* C33: a model call that never responds is cut off: a retry that waits for
\* the generator is eventually answered, and a generation task that was
\* scheduled eventually ends.
C33_GeneratorCallIsCutOff ==
  /\ (req[1].op = "retry" /\ ~Free(1)) ~> Free(1)
  /\ (autoPending > 0) ~> (autoPending = 0)
\* C34: every READY event has exactly expectedParticipants participants, so
\* on a live READY event without recommendations a retry with the creator's
\* nickname passes the checks, and with a generator that returns it moves the
\* event to VOTING.
C34_ReadyIsRetryable ==
  [][/\ status' = "READY" => Len(participants') = expectedParticipants'
     /\ \A s \in Slots, n \in Nicks :
          (/\ isLive /\ status = "READY" /\ recs = {}
           /\ n \in creatorNicknames
           /\ RetryStart(s, n))
            => req'[s].pc = "llm"
     /\ \A s \in Slots, o \in ReturningOutcomes, a \in ReferentialActions :
          (status = "READY" /\ recs = {} /\ RetryCommit(s, o, a))
            => status' = "VOTING"]_vars
\* C35: once no join request is in flight, an event that has at least
\* expectedParticipants participants is not in WAITING.
C35_FullEventLeavesWaiting ==
  ((\A s \in Slots : Free(s)) /\ Len(participants) >= expectedParticipants)
    => status # "WAITING"
\* C36: an event in WAITING or READY has no Recommendation rows and no Vote
\* rows, and a step creates Recommendation rows exactly when it sets the
\* status to VOTING.
C36_RecommendationsOnlyFromVoting ==
  [][/\ status' \in {"WAITING", "READY"} => (recs' = {} /\ votes' = {})
     /\ (recs' \ recs # {}) => status' = "VOTING"
     /\ (status # "VOTING" /\ status' = "VOTING") => (recs' \ recs # {})]_vars
C38_ReportedCountIsActualCount ==
  [][\A s \in Slots :
       (req[s].op = "join" /\ req[s].pc = "create" /\ JoinCreate(s))
         => (IF req'[s] = Idle THEN last'.cnt ELSE req'[s].cnt)
              = Len(participants')]_vars
\* C39: when the first insert of createEvent fails on a unique constraint and
\* the ids drawn for the second attempt are free, the call answers success and
\* the event with the new ids is in the store.
C39_CreateRetriesOnce ==
  (/\ create.pc = "returned"
   /\ includes(create.message, "Unique constraint")
   /\ ~UniqueViolation(create.events \ {[id |-> create.eventId,
                                         shortCode |-> create.shortCode]},
                       create.eventId, create.shortCode))
    => /\ create.resp = "OK"
       /\ [id |-> create.eventId, shortCode |-> create.shortCode] \in create.events
\* The pairs C40 lists.
AllowedPairs ==
  {<<"WAITING", "READY">>, <<"WAITING", "EXPIRED">>, <<"READY", "VOTING">>,
   <<"READY", "EXPIRED">>, <<"VOTING", "FINALIZED">>, <<"VOTING", "EXPIRED">>,
   <<"FINALIZED", "EXPIRED">>}

\* The table of canTransitionTo for the five statuses and a string that is
\* no key of validTransitions.
TableOfStatuses ==
  \A current \in StatusStrings \ {"constructor"}, next \in StatusStrings :
    canTransitionTo(current, next) = Returns(<<current, next>> \in AllowedPairs)

\* The same for every string of StatusStrings, "constructor" included.
TableOfStrings ==
  \A current, next \in StatusStrings :
    canTransitionTo(current, next) = Returns(<<current, next>> \in AllowedPairs)

\* C40: canTransitionTo is true exactly for WAITING->READY, WAITING->EXPIRED,
\* READY->VOTING, READY->EXPIRED, VOTING->FINALIZED, VOTING->EXPIRED and
\* FINALIZED->EXPIRED and false for every other pair of statuses, and every
\* change of the event's status a handler writes is one of these pairs.
C40_TransitionsFollowTable ==
  [][/\ TableOfStatuses
     /\ status' # status => /\ <<status, status'>> \in AllowedPairs
                            /\ canTransitionTo(status, status') = Returns(TRUE)]_vars

====
